---- MODULE Spec2Model ----
(***************************************************************************)
(* A model of the time-driven state engine of src/App.js: the four hooks   *)
(* useCountdown, useShayariRotation, useAudioPlayer and useMouseParallax,  *)
(* and the App component that owns the countdown's target date.            *)
(*                                                                         *)
(* Time.  A JavaScript time value is a number of milliseconds.  The values *)
(* of this program (five years are about 1.6e11 ms) do not fit the model   *)
(* checker's integers, so an instant or a difference of instants v is kept *)
(* as the record [s |-> v div 1000, ms |-> v mod 1000] (floor division,    *)
(* so 0 <= ms < 1000 and s carries the sign).  Instants are measured from  *)
(* the instant at which App rendered (new Date() of line 524).             *)
(***************************************************************************)
EXTENDS Integers, Sequences, FiniteSets, TLC

-----------------------------------------------------------------------------
(* Bounds of the model *)

\* the longest list of shayari lines the rotation hook is given
MaxLen == 3
\* how many ticks of the rotation timer are counted
MaxTicks == 3
\* how many toggleAudio() calls are issued
MaxToggles == 2
\* how many times the props of the rotation and parallax hooks change
MaxRerenders == 1

-----------------------------------------------------------------------------
(* Time values *)

MsPerSecond == 1000
SecPerMinute == 60
MinPerHour == 60
HourPerDay == 24
\* 365.25 days, in quarter days
QuarterDaysPerYear == 1461
\* (prevIndex + 1) % 0 is NaN in JavaScript; the model writes it -1
NaN == -1

SecPerHour == SecPerMinute * MinPerHour
SecPerDay == SecPerHour * HourPerDay
\* 60 * 60 * 24 * 365.25 seconds
SecPerYear == (SecPerDay * QuarterDaysPerYear) \div 4

Ms(sec, msec) == [s |-> sec, ms |-> msec]

\* a.getTime() - b.getTime()
TimeSub(a, b) ==
    LET raw == a.ms - b.ms
    IN  [s |-> a.s - b.s + (IF raw < 0 THEN -1 ELSE 0), ms |-> raw % MsPerSecond]

\* v > 0
Positive(v) == v.s > 0 \/ (v.s = 0 /\ v.ms > 0)

\* a <= b on instants
NotAfter(a, b) == ~Positive(TimeSub(a, b))

AddDays(t, days) == [s |-> t.s + days * SecPerDay, ms |-> t.ms]

AddMs(t, msec) ==
    [s |-> t.s + ((t.ms + msec) \div MsPerSecond), ms |-> (t.ms + msec) % MsPerSecond]

\* useState({}): the object with no fields
EmptyObject == [f \in {} |-> 0]

ZeroTimeLeft == [years |-> 0, days |-> 0, hours |-> 0, minutes |-> 0, seconds |-> 0]

\* A faulty variant of calculateTimeLeft: the days are taken modulo 365, not 365.25.
calculateTimeLeftDays365(target, current) ==
    LET difference == TimeSub(target, current)
    IN  IF Positive(difference)
        THEN [years   |-> difference.s \div SecPerYear,
              days    |-> (difference.s \div SecPerDay) % 365,
              hours   |-> (difference.s \div SecPerHour) % HourPerDay,
              minutes |-> (difference.s \div SecPerMinute) % MinPerHour,
              seconds |-> difference.s % SecPerMinute]
        ELSE ZeroTimeLeft

\* A faulty variant of calculateTimeLeft: the years are years of 365 days.
calculateTimeLeftYears365(target, current) ==
    LET difference == TimeSub(target, current)
    IN  IF Positive(difference)
        THEN [years   |-> difference.s \div (365 * SecPerDay),
              days    |-> (difference.s % SecPerYear) \div SecPerDay,
              hours   |-> (difference.s \div SecPerHour) % HourPerDay,
              minutes |-> (difference.s \div SecPerMinute) % MinPerHour,
              seconds |-> difference.s % SecPerMinute]
        ELSE ZeroTimeLeft

\* A faulty variant of calculateTimeLeft: no floor at zero, the negative difference is
\* broken down like a positive one.
calculateTimeLeftNoFloor(target, current) ==
    LET difference == TimeSub(target, current)
    IN  [years   |-> difference.s \div SecPerYear,
         days    |-> (difference.s % SecPerYear) \div SecPerDay,
         hours   |-> (difference.s \div SecPerHour) % HourPerDay,
         minutes |-> (difference.s \div SecPerMinute) % MinPerHour,
         seconds |-> difference.s % SecPerMinute]

\* calculateTimeLeft, lines 64-80.  Every divisor of the code is a whole
\* number of seconds, so floor(difference / (1000 * k)) is difference.s div k;
\* and floor((difference / msPerDay) % 365.25) is the whole days left of
\* difference after the whole 365.25-day years are taken out of it.
calculateTimeLeft(target, current) ==
    LET difference == TimeSub(target, current)
    IN  IF Positive(difference)
        THEN [years   |-> difference.s \div SecPerYear,
              days    |-> (difference.s % SecPerYear) \div SecPerDay,
              hours   |-> (difference.s \div SecPerHour) % HourPerDay,
              minutes |-> (difference.s \div SecPerMinute) % MinPerHour,
              seconds |-> difference.s % SecPerMinute]
        ELSE ZeroTimeLeft

\* (a % b) of JavaScript on the non-negative values of the rotation index
JsMod(a, b) == IF a = NaN \/ b = 0 THEN NaN ELSE a % b

-----------------------------------------------------------------------------
(* State *)

VARIABLES
    \* lifecycle: the effects and cleanups React still has to run, in order
    todo,
    unmounted,
    \* the wall clock
    now,
    \* App: targetDate.current; the day counts of the five-year spans that
    \* setFullYear(getFullYear() + 5) adds (1826 or 1827, by leap days), and how
    \* many times App's effect has run
    targetDate,
    calendar,
    appRuns,
    \* useCountdown
    timeLeft,
    cdTimers,
    cdArmedAt,
    cdLast,
    cdComputedAt,
    cdFloored,
    \* useShayariRotation
    linesLen,
    rotLen,
    currentShayariIndex,
    rotTimers,
    rotTicks,
    interval,
    rotInterval,
    rerenders,
    \* useAudioPlayer and the audio element
    attached,
    isPlayingAudio,
    setQueue,
    pendingPlays,
    abortedPlays,
    devicePlaying,
    errorSink,
    logSink,
    toggles,
    playsIssued,
    playsStarted,
    \* useMouseParallax
    strength,
    pxStrength,
    offset,
    listeners,
    lastSample

lifeVars == <<todo, unmounted>>
appVars == <<targetDate, calendar, appRuns>>
cdVars == <<timeLeft, cdTimers, cdArmedAt, cdLast, cdComputedAt, cdFloored>>
rotVars == <<linesLen, rotLen, currentShayariIndex, rotTimers, rotTicks, interval,
             rotInterval>>
audioVars == <<attached, isPlayingAudio, setQueue, pendingPlays, abortedPlays,
               devicePlaying, errorSink, logSink, toggles, playsIssued, playsStarted>>
pxVars == <<strength, pxStrength, offset, listeners, lastSample>>
vars == <<lifeVars, now, appVars, cdVars, rotVars, rerenders, audioVars, pxVars>>

-----------------------------------------------------------------------------
(* Inputs *)

\* the period of the countdown's setInterval, in ms
CountdownInterval == 1000
\* appConfig.shayari.lines has ten lines
AppLines == 10
\* HeroSection calls useMouseParallax(15)
HeroStrength == 15
\* the default strength of useMouseParallax
DefaultStrength == 10
\* the default interval of useShayariRotation, in ms
DefaultInterval == 7000
\* another interval an owner may pass, in ms
OtherInterval == 3000

\* setFullYear(getFullYear() + 5) moves a date by 1826 or 1827 days, by the
\* leap days in between; ten years hold two or three leap days, so two
\* successive moves never both add 1827 days.
Calendars == {<<1826, 1826>>, <<1826, 1827>>, <<1827, 1826>>}

At(days, sec, msec) == Ms(days * SecPerDay + sec, msec)

\* the instants the clock is read at while the effects of one commit run
FlushMarks == {Ms(0, 3)}

\* the instants the clock is read at in the specification of the whole app
AppMarks == {Ms(1, 4), At(1827, 0, 0), At(3653, 0, 5)}

\* the instants the clock is read at in the specification of the countdown
CountdownMarks ==
    {Ms(0, 500), Ms(1, 0), Ms(1, 4), Ms(2, 8), Ms(61, 0), At(0, 6 * SecPerHour, 0),
     At(1, 0, 0), At(365, 0, 0), At(365, 6 * SecPerHour, 0), At(366, 0, 0), At(366, 1, 0),
     At(1460, 23 * SecPerHour, 999), At(1461, 0, 0),
     At(1825, 86399, 999), At(1826, 0, 0), At(1826, 0, 1), At(1827, 0, 0),
     At(1827, 1, 0), At(3652, 0, 0), At(3653, 0, 0), At(3654, 0, 0)}

\* React runs the effects of a commit children first, in the order of the
\* tree: AudioPlayer, HeroSection, CountdownSection, ShayariCarousel, App.
MountEffects == <<"fxAudio", "fxParallax", "fxCountdown", "fxRotation", "fxApp">>

\* Under React.StrictMode (development) every effect is cleaned up and run a
\* second time right after the mount.
StrictReplay == <<"cuParallax", "cuCountdown", "cuRotation">> \o MountEffects

UnmountCleanups == <<"cuParallax", "cuCountdown", "cuRotation">>

Frac(n, d) == [num |-> n, den |-> d]

-----------------------------------------------------------------------------
(* The state after the first render and commit, before any effect has run *)

InitWith(lens) ==
    /\ todo \in {MountEffects, MountEffects \o StrictReplay}
    /\ unmounted = FALSE
    /\ now = Ms(0, 0)
    /\ targetDate = Ms(0, 0)
    /\ calendar \in Calendars
    /\ appRuns = 0
    /\ timeLeft = EmptyObject
    /\ cdTimers = 0
    /\ cdArmedAt = Ms(0, 0)
    /\ cdLast = "none"
    /\ cdComputedAt = Ms(0, 0)
    /\ cdFloored = FALSE
    /\ linesLen \in lens
    /\ rotLen = 0
    /\ currentShayariIndex = 0
    /\ rotTimers = 0
    /\ rotTicks = 0
    /\ interval = DefaultInterval
    /\ rotInterval = DefaultInterval
    /\ rerenders = 0
    /\ attached = TRUE
    /\ isPlayingAudio = FALSE
    /\ setQueue = <<>>
    /\ pendingPlays = 0
    /\ abortedPlays = 0
    /\ devicePlaying = FALSE
    /\ errorSink = 0
    /\ logSink = 0
    /\ toggles = 0
    /\ playsIssued = 0
    /\ playsStarted = 0
    /\ strength = HeroStrength
    /\ pxStrength = HeroStrength
    /\ offset = [x |-> Frac(0, 1), y |-> Frac(0, 1)]
    /\ listeners = 0
    /\ lastSample = <<>>

Init == InitWith({AppLines})

\* no effect or cleanup is waiting: timers, events and callbacks may run
Idle == todo = <<>>

-----------------------------------------------------------------------------
(* The wall clock *)

\* the clock moves on by a few milliseconds while effects run
ClockDrift ==
    /\ ~Idle
    /\ \E t \in FlushMarks : Positive(TimeSub(t, now)) /\ now' = t
    /\ UNCHANGED <<lifeVars, appVars, cdVars, rotVars, rerenders, audioVars, pxVars>>

ClockAdvance(marks) ==
    /\ Idle
    /\ \E t \in marks : Positive(TimeSub(t, now)) /\ now' = t
    /\ UNCHANGED <<lifeVars, appVars, cdVars, rotVars, rerenders, audioVars, pxVars>>

-----------------------------------------------------------------------------
(* App, lines 522-527 *)

\* A faulty variant of setFullYearPlus5: the target date is left as it is.
setFullYearUnchanged(date, days) == date

\* targetDate.current.setFullYear(targetDate.current.getFullYear() + 5)
setFullYearPlus5(date, days) == AddDays(date, days)

FxApp ==
    /\ todo # <<>> /\ Head(todo) = "fxApp"
    /\ todo' = Tail(todo)
    /\ targetDate' = setFullYearPlus5(targetDate, calendar[appRuns + 1])
    /\ appRuns' = appRuns + 1
    /\ UNCHANGED calendar
    /\ UNCHANGED <<unmounted, now, cdVars, rotVars, rerenders, audioVars, pxVars>>

-----------------------------------------------------------------------------
(* useCountdown, lines 60-92 *)

\* setTimeLeft(calculateTimeLeft()): the state read from now on
Recompute(kind) ==
    /\ timeLeft' = calculateTimeLeft(targetDate, now)
    /\ cdLast' = kind
    /\ cdComputedAt' = now
    /\ cdFloored' = (cdFloored \/ NotAfter(targetDate, now))

\* the effect: lines 82-85
FxCountdown ==
    /\ todo # <<>> /\ Head(todo) = "fxCountdown"
    /\ todo' = Tail(todo)
    /\ Recompute("start")
    /\ cdTimers' = cdTimers + 1
    /\ cdArmedAt' = now
    /\ UNCHANGED <<unmounted, now, appVars, rotVars, rerenders, audioVars, pxVars>>

\* A faulty variant of clearCountdownTimer: the interval is left running.
keepCountdownTimer(n) == n

\* clearInterval(timer), line 88
clearCountdownTimer(n) == IF n > 0 THEN n - 1 ELSE 0

\* A faulty variant of CuCountdown: the cleanup clears the interval of the
\* rotation as well.
CuCountdownClearsAll ==
    /\ todo # <<>> /\ Head(todo) = "cuCountdown"
    /\ todo' = Tail(todo)
    /\ cdTimers' = clearCountdownTimer(cdTimers)
    /\ rotTimers' = 0
    /\ UNCHANGED <<unmounted, now, appVars, timeLeft, cdArmedAt, cdLast, cdComputedAt,
                   cdFloored, linesLen, rotLen, currentShayariIndex, rotTicks, interval,
                   rotInterval, rerenders, audioVars, pxVars>>

\* the cleanup of the effect, lines 87-89
CuCountdown ==
    /\ todo # <<>> /\ Head(todo) = "cuCountdown"
    /\ todo' = Tail(todo)
    /\ cdTimers' = clearCountdownTimer(cdTimers)
    /\ UNCHANGED <<unmounted, now, appVars, timeLeft, cdArmedAt, cdLast, cdComputedAt,
                   cdFloored, rotVars, rerenders, audioVars, pxVars>>

\* the interval's callback, lines 83-85: it runs no sooner than 1000 ms after
\* setInterval
CountdownTick ==
    /\ Idle
    /\ cdTimers > 0
    /\ NotAfter(AddMs(cdArmedAt, CountdownInterval), now)
    /\ Recompute("tick")
    /\ UNCHANGED <<lifeVars, now, appVars, cdTimers, cdArmedAt, rotVars, rerenders,
                   audioVars, pxVars>>

-----------------------------------------------------------------------------
(* useShayariRotation, lines 100-113 *)

\* A faulty variant of nextIndex: the index is not wrapped at the end of the list.
nextIndexNoWrap(prevIndex, len) ==
    IF prevIndex = NaN \/ len = 0 THEN NaN ELSE prevIndex + 1

\* (prevIndex) => (prevIndex + 1) % lines.length, line 105
nextIndex(prevIndex, len) ==
    JsMod(IF prevIndex = NaN THEN NaN ELSE prevIndex + 1, len)

\* lines[currentShayariIndex] of line 112 is an element of lines
currentShayariDefined ==
    currentShayariIndex # NaN /\ 0 <= currentShayariIndex /\ currentShayariIndex < linesLen

\* the effect: setInterval with lines.length of this render, lines 104-106
FxRotation ==
    /\ todo # <<>> /\ Head(todo) = "fxRotation"
    /\ todo' = Tail(todo)
    /\ rotTimers' = rotTimers + 1
    /\ rotLen' = linesLen
    /\ rotInterval' = interval
    /\ UNCHANGED <<unmounted, now, appVars, cdVars, linesLen, currentShayariIndex,
                   rotTicks, interval, rerenders, audioVars, pxVars>>

\* A faulty variant of clearShayariTimer: the interval is left running.
keepShayariTimer(n) == n

\* clearInterval(shayariTimer), line 109
clearShayariTimer(n) == IF n > 0 THEN n - 1 ELSE 0

CuRotation ==
    /\ todo # <<>> /\ Head(todo) = "cuRotation"
    /\ todo' = Tail(todo)
    /\ rotTimers' = clearShayariTimer(rotTimers)
    /\ UNCHANGED <<unmounted, now, appVars, cdVars, linesLen, rotLen, currentShayariIndex,
                   rotTicks, interval, rotInterval, rerenders, audioVars, pxVars>>

\* the interval's callback, line 105
RotationTick ==
    /\ Idle
    /\ rotTimers > 0
    /\ rotTicks < MaxTicks
    /\ currentShayariIndex' = nextIndex(currentShayariIndex, rotLen)
    /\ rotTicks' = rotTicks + 1
    /\ UNCHANGED <<lifeVars, now, appVars, cdVars, linesLen, rotLen, rotTimers,
                   interval, rotInterval, rerenders, audioVars, pxVars>>

\* the owner renders the hook again with a list of another length; the index
\* is read against the new list at once (line 112), the effect runs later
ChangeLines ==
    /\ Idle /\ ~unmounted
    /\ rerenders < MaxRerenders
    /\ \E n \in 0..MaxLen : n # linesLen /\ linesLen' = n
    /\ rerenders' = rerenders + 1
    /\ UNCHANGED <<lifeVars, now, appVars, cdVars, rotLen, currentShayariIndex, rotTimers,
                   rotTicks, interval, rotInterval, audioVars, pxVars>>

\* the owner renders the hook again with another interval
ChangeInterval ==
    /\ Idle /\ ~unmounted
    /\ rerenders < MaxRerenders
    /\ \E n \in {DefaultInterval, OtherInterval} : n # interval /\ interval' = n
    /\ rerenders' = rerenders + 1
    /\ UNCHANGED <<lifeVars, now, appVars, cdVars, linesLen, rotLen, currentShayariIndex,
                   rotTimers, rotTicks, rotInterval, audioVars, pxVars>>

\* lines.length and interval are the dependencies of the effect (line 110):
\* cleanup, then the effect again with the new values
RerunRotationEffect ==
    /\ Idle /\ ~unmounted
    /\ rotLen # linesLen \/ rotInterval # interval
    /\ rotTimers' = clearShayariTimer(rotTimers) + 1
    /\ rotLen' = linesLen
    /\ rotInterval' = interval
    /\ UNCHANGED <<lifeVars, now, appVars, cdVars, linesLen, currentShayariIndex,
                   rotTicks, interval, rerenders, audioVars, pxVars>>

-----------------------------------------------------------------------------
(* useAudioPlayer, lines 121-144, and the audio element it drives *)

\* the effect: console.log(consoleMessage), lines 125-129; the app passes a
\* non-empty message (line 49)
FxAudio ==
    /\ todo # <<>> /\ Head(todo) = "fxAudio"
    /\ todo' = Tail(todo)
    /\ logSink' = logSink + 1
    /\ UNCHANGED <<unmounted, now, appVars, cdVars, rotVars, rerenders, attached,
                   isPlayingAudio, setQueue, pendingPlays, abortedPlays, devicePlaying,
                   errorSink, toggles, playsIssued, playsStarted, pxVars>>

\* A faulty variant of toggledValue: the value set is the value read.
toggledValueStuck(playing) == playing

\* what toggleAudio passes to setIsPlayingAudio, line 139: it reads the
\* isPlayingAudio of the render that made this toggleAudio
toggledValue(playing) == ~playing

\* A faulty variant of pauseElement: the element goes on as it was.
pauseElementIgnored(playing) == playing

\* whether the element plays after audioRef.current.pause(), line 134
pauseElement(playing) == FALSE

\* A faulty variant of hasElement: the handler does not look at the ref.
hasElementAlways(ref) == TRUE

\* the guard of toggleAudio, if (audioRef.current), line 132
hasElement(ref) == ref

\* toggleAudio, lines 131-141.  pause() stops the element and rejects the play
\* requests still pending; play() files a request that settles later.
ToggleAudio ==
    /\ Idle
    /\ toggles < MaxToggles
    /\ toggles' = toggles + 1
    /\ IF hasElement(attached)
       THEN /\ IF isPlayingAudio
               THEN /\ devicePlaying' = pauseElement(devicePlaying)
                    /\ abortedPlays' = abortedPlays + pendingPlays
                    /\ pendingPlays' = 0
                    /\ UNCHANGED playsIssued
               ELSE /\ pendingPlays' = pendingPlays + 1
                    /\ playsIssued' = playsIssued + 1
                    /\ UNCHANGED <<devicePlaying, abortedPlays>>
            /\ setQueue' = Append(setQueue, toggledValue(isPlayingAudio))
       ELSE UNCHANGED <<devicePlaying, abortedPlays, pendingPlays, playsIssued, setQueue>>
    /\ UNCHANGED <<lifeVars, now, appVars, cdVars, rotVars, rerenders, attached,
                   isPlayingAudio, errorSink, logSink, playsStarted, pxVars>>

\* React renders again: the last value set in the batch becomes the state
CommitState ==
    /\ Idle /\ ~unmounted
    /\ setQueue # <<>>
    /\ isPlayingAudio' = setQueue[Len(setQueue)]
    /\ setQueue' = <<>>
    /\ UNCHANGED <<lifeVars, now, appVars, cdVars, rotVars, rerenders, attached,
                   pendingPlays, abortedPlays, devicePlaying, errorSink, logSink, toggles,
                   playsIssued, playsStarted, pxVars>>

\* the play request is fulfilled: the element plays; the code attached no
\* handler to the fulfilment (line 137 has a catch only)
PlayResolved ==
    /\ Idle
    /\ pendingPlays > 0
    /\ pendingPlays' = pendingPlays - 1
    /\ playsStarted' = playsStarted + 1
    /\ devicePlaying' = TRUE
    /\ UNCHANGED <<lifeVars, now, appVars, cdVars, rotVars, rerenders, attached,
                   isPlayingAudio, setQueue, abortedPlays, errorSink, logSink, toggles,
                   playsIssued, pxVars>>

\* A faulty variant of playFailedState: a failed play request rolls the state back.
playFailedRollsBack(playing) == FALSE

\* isPlayingAudio after the catch handler of line 137, which only logs
playFailedState(playing) == playing

\* A faulty variant of playFailedLog: the failure is swallowed.
playFailedSilent(n) == n

\* console.error("Audio play failed:", e), line 137
playFailedLog(n) == n + 1

\* the play request is rejected (no permission, no source)
PlayFailed ==
    /\ Idle
    /\ pendingPlays > 0
    /\ pendingPlays' = pendingPlays - 1
    /\ errorSink' = playFailedLog(errorSink)
    /\ isPlayingAudio' = playFailedState(isPlayingAudio)
    /\ UNCHANGED <<lifeVars, now, appVars, cdVars, rotVars, rerenders, attached,
                   setQueue, abortedPlays, devicePlaying, logSink, toggles,
                   playsIssued, playsStarted, pxVars>>

\* the rejection of a play request that a pause() aborted is delivered
PlayAborted ==
    /\ Idle
    /\ abortedPlays > 0
    /\ abortedPlays' = abortedPlays - 1
    /\ errorSink' = playFailedLog(errorSink)
    /\ isPlayingAudio' = playFailedState(isPlayingAudio)
    /\ UNCHANGED <<lifeVars, now, appVars, cdVars, rotVars, rerenders, attached,
                   setQueue, pendingPlays, devicePlaying, logSink, toggles,
                   playsIssued, playsStarted, pxVars>>

-----------------------------------------------------------------------------
(* useMouseParallax, lines 151-179 *)

\* the pointer events of the model: clientX, clientY, innerWidth, innerHeight
AppEvents ==
    {[clientX |-> 400, clientY |-> 300, innerWidth |-> 800, innerHeight |-> 600],
     [clientX |-> 0, clientY |-> 0, innerWidth |-> 800, innerHeight |-> 600]}

\* more pointer events: inside the viewport, on its edges, and outside it
\* (a mousemove of a drag that left the window reports such coordinates)
ParallaxEvents ==
    AppEvents \cup
    {[clientX |-> 799, clientY |-> 599, innerWidth |-> 800, innerHeight |-> 600],
     [clientX |-> 200, clientY |-> 450, innerWidth |-> 800, innerHeight |-> 600],
     [clientX |-> 160, clientY |-> 100, innerWidth |-> 320, innerHeight |-> 200],
     [clientX |-> 0, clientY |-> 0, innerWidth |-> 320, innerHeight |-> 200],
     [clientX |-> 17, clientY |-> 3, innerWidth |-> 321, innerHeight |-> 7],
     [clientX |-> -40, clientY |-> 300, innerWidth |-> 800, innerHeight |-> 600],
     [clientX |-> 400, clientY |-> 700, innerWidth |-> 800, innerHeight |-> 600]}

\* A faulty variant of handleMouseMove: the distance from the centre is
\* divided by the whole width and height.
handleMouseMoveFullWidth(e, s) ==
    [x |-> Frac((2 * e.clientX - e.innerWidth) * s, 2 * e.innerWidth),
     y |-> Frac((2 * e.clientY - e.innerHeight) * s, 2 * e.innerHeight)]

\* handleMouseMove, lines 155-167: (clientX - w/2) / (w/2) * strength is the
\* fraction (2 * clientX - w) * strength / w
handleMouseMove(e, s) ==
    [x |-> Frac((2 * e.clientX - e.innerWidth) * s, e.innerWidth),
     y |-> Frac((2 * e.clientY - e.innerHeight) * s, e.innerHeight)]

\* the effect: addEventListener('mousemove', handleMouseMove), line 170
FxParallax ==
    /\ todo # <<>> /\ Head(todo) = "fxParallax"
    /\ todo' = Tail(todo)
    /\ listeners' = listeners + 1
    /\ pxStrength' = strength
    /\ UNCHANGED <<unmounted, now, appVars, cdVars, rotVars, rerenders, audioVars,
                   strength, offset, lastSample>>

\* A faulty variant of removeMouseListener: the listener stays registered.
keepMouseListener(n) == n

\* removeEventListener('mousemove', handleMouseMove), line 174
removeMouseListener(n) == IF n > 0 THEN n - 1 ELSE 0

CuParallax ==
    /\ todo # <<>> /\ Head(todo) = "cuParallax"
    /\ todo' = Tail(todo)
    /\ listeners' = removeMouseListener(listeners)
    /\ UNCHANGED <<unmounted, now, appVars, cdVars, rotVars, rerenders, audioVars,
                   strength, pxStrength, offset, lastSample>>

\* a mousemove event reaches the registered listener; lastSample records
\* the event and the strength of the listener's closure
MouseMove(events) ==
    /\ Idle
    /\ listeners > 0
    /\ \E e \in events :
        /\ offset' = handleMouseMove(e, pxStrength)
        /\ lastSample' = <<[e |-> e, s |-> pxStrength]>>
    /\ UNCHANGED <<lifeVars, now, appVars, cdVars, rotVars, rerenders, audioVars,
                   strength, pxStrength, listeners>>

\* the owner renders the hook again with another strength
ChangeStrength ==
    /\ Idle /\ ~unmounted
    /\ rerenders < MaxRerenders
    /\ \E n \in {HeroStrength, DefaultStrength} : n # strength /\ strength' = n
    /\ rerenders' = rerenders + 1
    /\ UNCHANGED <<lifeVars, now, appVars, cdVars, rotVars, audioVars, pxStrength,
                   offset, listeners, lastSample>>

\* strength is the dependency of the effect (line 176): cleanup, then the
\* effect again with the new strength
RerunParallaxEffect ==
    /\ Idle /\ ~unmounted
    /\ pxStrength # strength
    /\ listeners' = removeMouseListener(listeners) + 1
    /\ pxStrength' = strength
    /\ UNCHANGED <<lifeVars, now, appVars, cdVars, rotVars, rerenders, audioVars,
                   strength, offset, lastSample>>

-----------------------------------------------------------------------------
(* Unmount of the app *)

\* React detaches the audio ref, drops the state updates still queued and
\* runs the cleanups of the effects
Unmount ==
    /\ Idle /\ ~unmounted
    /\ unmounted' = TRUE
    /\ todo' = UnmountCleanups
    /\ attached' = FALSE
    /\ setQueue' = <<>>
    /\ UNCHANGED <<now, appVars, cdVars, rotVars, rerenders, isPlayingAudio, pendingPlays,
                   abortedPlays, devicePlaying, errorSink, logSink, toggles,
                   playsIssued, playsStarted, pxVars>>

-----------------------------------------------------------------------------
(* Specifications *)

Lifecycle ==
    \/ FxAudio
    \/ FxParallax
    \/ FxCountdown
    \/ FxRotation
    \/ FxApp
    \/ CuParallax
    \/ CuCountdown
    \/ CuRotation
    \/ ClockDrift
    \/ Unmount

\* the app as it is shipped: all four engines, ten lines
Next ==
    \/ Lifecycle
    \/ ClockAdvance(AppMarks)
    \/ CountdownTick
    \/ RotationTick
    \/ ToggleAudio
    \/ CommitState
    \/ PlayResolved
    \/ PlayFailed
    \/ PlayAborted
    \/ MouseMove(AppEvents)

Spec == Init /\ [][Next]_vars

\* the countdown over a wide range of clock readings
NextCountdown ==
    \/ Lifecycle
    \/ ClockAdvance(CountdownMarks)
    \/ CountdownTick

SpecCountdown == Init /\ [][NextCountdown]_vars

\* the rotation hook over lists of every length up to MaxLen, whose length
\* may change while the hook is mounted
InitRotation == InitWith(0..MaxLen)

NextRotation ==
    \/ Lifecycle
    \/ RotationTick
    \/ ChangeLines
    \/ RerunRotationEffect

SpecRotation == InitRotation /\ [][NextRotation]_vars

\* the playback controller and its audio element
\* the pointer engine alone, under richer events and a changing strength
NextParallax ==
    \/ Lifecycle
    \/ MouseMove(ParallaxEvents)
    \/ ChangeStrength
    \/ RerunParallaxEffect

SpecParallax == Init /\ [][NextParallax]_vars

\* the hooks under re-renders of their owner with other arguments
NextRerender ==
    \/ Lifecycle
    \/ RotationTick
    \/ ChangeLines
    \/ ChangeInterval
    \/ RerunRotationEffect
    \/ ChangeStrength
    \/ RerunParallaxEffect
    \/ MouseMove(AppEvents)

SpecRerender == InitRotation /\ [][NextRerender]_vars

NextPlayback ==
    \/ Lifecycle
    \/ ToggleAudio
    \/ CommitState
    \/ PlayResolved
    \/ PlayFailed
    \/ PlayAborted

SpecPlayback == Init /\ [][NextPlayback]_vars

-----------------------------------------------------------------------------
(* Properties *)

\* the target the app means: the render instant moved five years ahead
IntendedTarget == AddDays(Ms(0, 0), calendar[1])

\* the difference the last computation of the countdown was made from
LastDifference == TimeSub(targetDate, cdComputedAt)

\* C1: once a countdown state has been computed with target <= now, every
\* later countdown state is {0,0,0,0,0}.
C1_FloorIsFinal == [][cdFloored => timeLeft' = ZeroTimeLeft]_vars

\* C8: the target instant is now + 5 years before the first computation of
\* the countdown, and no step changes it once that computation is made.
C8_TargetImmutable ==
    [][timeLeft' # EmptyObject => (targetDate' = IntendedTarget /\ (timeLeft # EmptyObject => targetDate' = targetDate))]_vars

\* C9: right after the countdown starts, before its first tick, the state
\* holds the five fields of the breakdown of (now + 5 years) - start time.
C9_FirstState ==
    cdLast = "start" =>
        /\ DOMAIN timeLeft = {"years", "days", "hours", "minutes", "seconds"}
        /\ timeLeft = calculateTimeLeft(IntendedTarget, cdComputedAt)

\* the breakdown as C10 reads section 4.1: the whole days of the difference
\* are taken modulo 365.25 (here in quarter days), and the result floored
ClaimedBreakdown(diff) ==
    [years   |-> (diff.s \div (SecPerDay \div 4)) \div QuarterDaysPerYear,
     days    |-> ((4 * (diff.s \div SecPerDay)) % QuarterDaysPerYear) \div 4,
     hours   |-> (diff.s \div SecPerHour) % HourPerDay,
     minutes |-> (diff.s \div SecPerMinute) % MinPerHour,
     seconds |-> diff.s % SecPerMinute]

\* the breakdown with the days amended: the difference in days, with its
\* fraction, is taken modulo 365.25 (here in quarter days) and then floored
AmendedBreakdown(diff) ==
    [years   |-> (diff.s \div (SecPerDay \div 4)) \div QuarterDaysPerYear,
     days    |-> ((diff.s \div (SecPerDay \div 4)) % QuarterDaysPerYear) \div 4,
     hours   |-> (diff.s \div SecPerHour) % HourPerDay,
     minutes |-> (diff.s \div SecPerMinute) % MinPerHour,
     seconds |-> diff.s % SecPerMinute]

\* C10 as claimed: for every difference > 0 the state a tick computes is the
\* breakdown of section 4.1 with days = floor(floor(diff / ms_per_day) mod
\* 365.25), a function of the target and of the clock at that tick alone.
C10_AsClaimed ==
    (cdLast = "tick" /\ Positive(LastDifference)) =>
        timeLeft = ClaimedBreakdown(LastDifference)

\* C10 as amended: the same with days = floor((diff / ms_per_day) mod 365.25),
\* the quotient keeping its fraction until the modulo is taken.
C10_Arithmetic ==
    (cdLast = "tick" /\ Positive(LastDifference)) =>
        timeLeft = AmendedBreakdown(LastDifference)

\* a tick computed five years and no whole day from a difference of 1826.25
\* days or more: the case in which the two readings of the days differ
C10_Witness ==
    /\ cdLast = "tick"
    /\ Positive(LastDifference)
    /\ timeLeft.years = 5 /\ timeLeft.days = 0
    /\ LastDifference.s \div SecPerDay = 1826

\* C3: with a non-empty list whose length N stays fixed, the index after k
\* ticks of the rotation timer is k mod N; the index is a function of the
\* number of ticks, so each tick moves it one step and nothing else moves it.
C3_IndexIsTicksModN ==
    (rerenders = 0 /\ linesLen > 0) => currentShayariIndex = rotTicks % linesLen

\* three ticks over a list of three lines: the index has wrapped to 0
C3_Witness ==
    rerenders = 0 /\ linesLen = 3 /\ rotTicks = 3 /\ currentShayariIndex = 0

\* C6: given a list of length zero the hook does not start: it holds no
\* timer, and no tick leaves NaN (a number modulo 0) in the index.
C6_EmptyListRefused ==
    (rotLen = 0 => rotTimers = 0) /\ currentShayariIndex # NaN

\* C7: the index read at line 112 is within the current list, also after the
\* length of the list has changed (stated for non-empty lists and for an
\* index that is a number).
C7_IndexInRange ==
    (linesLen > 0 /\ currentShayariIndex # NaN) => currentShayariDefined

\* C2: from Paused with the element attached, once the state is committed
\* one toggleAudio() leaves isPlayingAudio true, whether or not the play
\* request has settled, and two leave it false.
C2_ToggleParity ==
    (attached /\ setQueue = <<>>) =>
        /\ toggles = 1 => isPlayingAudio
        /\ toggles = 2 => ~isPlayingAudio

\* the play requests that have not yet settled in the code's view
InFlight == pendingPlays + abortedPlays

\* C4: a step in which a play request settles leaves isPlayingAudio, and the
\* state updates queued, as they were; and the error sink holds one report
\* for each play request that was rejected (issued, not started, not still
\* in flight), no more and no fewer.
C4_ResolutionKeepsState ==
    [][/\ InFlight' < InFlight =>
            (isPlayingAudio' = isPlayingAudio /\ setQueue' = setQueue)
       /\ errorSink' = playsIssued' - playsStarted' - InFlight']_vars

\* one toggle, committed, whose play request failed: the failure is in the
\* sink once and the state still says playing
C4_Witness ==
    /\ toggles = 1 /\ setQueue = <<>> /\ isPlayingAudio
    /\ playsIssued = 1 /\ InFlight = 0 /\ playsStarted = 0
    /\ errorSink = 1

\* whether React still has to run the lifecycle step
Pending(step) == \E i \in 1..Len(todo) : todo[i] = step

\* C5: once the app is unmounted and an engine's cleanup has run, no step
\* runs that engine's callback or changes its state.
C5_Teardown ==
    [][/\ (unmounted /\ ~Pending("cuCountdown")) =>
            (timeLeft' = timeLeft /\ cdComputedAt' = cdComputedAt)
       /\ (unmounted /\ ~Pending("cuRotation")) =>
            (currentShayariIndex' = currentShayariIndex /\ rotTicks' = rotTicks)
       /\ (unmounted /\ ~Pending("cuParallax")) => offset' = offset]_vars

\* every cleanup has run, each engine had acted before, and the clock has
\* moved on since the countdown's last tick
C5_Witness ==
    /\ unmounted /\ Idle
    /\ cdTimers = 0 /\ rotTimers = 0 /\ listeners = 0
    /\ cdLast = "tick" /\ rotTicks > 0 /\ offset.x.num # 0
    /\ Positive(TimeSub(now, cdComputedAt))

\* the tick that fires 1000 ms after the start, late by less than a minute,
\* with the target the render instant moved five years ahead
FirstTickOfFiveYears ==
    /\ cdLast = "tick"
    /\ targetDate = IntendedTarget
    /\ Positive(cdComputedAt)
    /\ cdComputedAt.s < SecPerMinute

\* C11 as claimed: with the target five years after the start, 1826 or 1827
\* days ahead, the state of the tick 1000 ms after the start has years = 4.
C11_AsClaimed == FirstTickOfFiveYears => timeLeft.years = 4

\* C11 as amended: that state has years = 4 when the five years span 1826
\* days and years = 5 when they span 1827 days (1827 days less a second are
\* more than five years of 365.25 days).
C11_FiveYearScenario ==
    FirstTickOfFiveYears =>
        timeLeft.years = (IF calendar[1] = 1826 THEN 4 ELSE 5)

\* the first tick of a countdown whose five years span two leap days
C11_Witness ==
    /\ FirstTickOfFiveYears
    /\ calendar[1] = 1827
    /\ cdComputedAt = Ms(1, 0)
    /\ timeLeft.years = 5

\* the controller at rest: the element attached, no play request waiting
\* for its outcome, no state update waiting for its render
AtRest == attached /\ InFlight = 0 /\ setQueue = <<>>

\* C12 as claimed: whenever no play request is pending, isPlayingAudio is
\* true exactly when the element is playing, also after a failed request.
C12_AsClaimed == AtRest => (isPlayingAudio <=> devicePlaying)

\* C12 as amended: whenever no play request is pending, a playing element
\* has isPlayingAudio true, and isPlayingAudio is true over a silent
\* element only after a play request was rejected and reported.
C12_PlaybackConsistency ==
    AtRest =>
        /\ devicePlaying => isPlayingAudio
        /\ (isPlayingAudio /\ ~devicePlaying) => errorSink > 0

\* at rest after a toggle whose play request was fulfilled
C12_Witness ==
    /\ AtRest
    /\ toggles > 0 /\ playsStarted > 0
    /\ isPlayingAudio /\ devicePlaying

\* the absolute value of an integer
Abs(n) == IF n < 0 THEN 0 - n ELSE n

\* whether the fraction f lies in [-s, +s]
Within(f, s) == Abs(f.num) <= s * f.den

\* C13: after every pointer-move event the handler receives, offset.x and
\* offset.y lie in [-strength, +strength], strength being the one the
\* handler computed with.
C13_ParallaxBound ==
    lastSample # <<>> =>
        /\ Within(offset.x, lastSample[1].s)
        /\ Within(offset.y, lastSample[1].s)

\* whether the fraction f is (p - size/2) / (size/2) * s
IsOffsetOf(f, p, size, s) == f.num * size = f.den * (2 * p - size) * s

\* C14: before any pointer event the offset is {0,0}; after pointer events
\* it is ((px - w/2)/(w/2)*s, (py - h/2)/(h/2)*s) of the latest event alone:
\* {0,0} for an event at the centre, {-s,-s} for an event at (0,0).
C14_LastSampleOnly ==
    IF lastSample = <<>>
    THEN offset.x.num = 0 /\ offset.y.num = 0
    ELSE LET e == lastSample[1].e
             s == lastSample[1].s
         IN  /\ IsOffsetOf(offset.x, e.clientX, e.innerWidth, s)
             /\ IsOffsetOf(offset.y, e.clientY, e.innerHeight, s)
             /\ (2 * e.clientX = e.innerWidth /\ 2 * e.clientY = e.innerHeight) =>
                    (offset.x.num = 0 /\ offset.y.num = 0)
             /\ (e.clientX = 0 /\ e.clientY = 0) =>
                    /\ offset.x.num = 0 - s * offset.x.den
                    /\ offset.y.num = 0 - s * offset.y.den

\* an event at (0,0) handled after the effect ran again with another
\* strength: the offset is {-s,-s} for the new strength
C14_Witness ==
    /\ lastSample # <<>>
    /\ lastSample[1].e.clientX = 0 /\ lastSample[1].e.clientY = 0
    /\ lastSample[1].s = DefaultStrength
    /\ offset.x.num = 0 - DefaultStrength * offset.x.den
    /\ offset.y.num = 0 - DefaultStrength * offset.y.den

\* the timers and listeners registered
Registered == <<cdTimers, rotTimers, listeners>>

\* whether React is about to run a cleanup
CleanupNext == todo # <<>> /\ Head(todo) \in {"cuParallax", "cuCountdown", "cuRotation"}

\* C15: toggleAudio() with no audio element attached issues no play and no
\* pause request, leaves isPlayingAudio and the queued updates unchanged and
\* registers nothing; and a cleanup, like every step after the unmount,
\* registers no timer and no listener.
C15_DisposedIsInert ==
    [][/\ (~attached /\ toggles' # toggles) =>
            /\ UNCHANGED <<playsIssued, pendingPlays, abortedPlays, devicePlaying>>
            /\ UNCHANGED <<isPlayingAudio, setQueue, Registered>>
       /\ (CleanupNext \/ unmounted) =>
            /\ cdTimers' <= cdTimers
            /\ rotTimers' <= rotTimers
            /\ listeners' <= listeners]_vars

\* toggleAudio() was called after the unmount and every cleanup has run
C15_Witness ==
    /\ unmounted /\ Idle
    /\ toggles > 0 /\ playsIssued = 0 /\ ~isPlayingAudio /\ ~devicePlaying
    /\ cdTimers = 0 /\ rotTimers = 0 /\ listeners = 0

\* C16: over the lifetime of the controller the diagnostic message is
\* written to the log sink exactly once: never twice, and once as soon as
\* no run of the effect is left to do.
C16_DiagnosticOnce ==
    /\ logSink <= 1
    /\ ~Pending("fxAudio") => logSink = 1

\* the displayed tuple of a countdown state
Tuple(t) == <<t.years, t.days, t.hours, t.minutes, t.seconds>>

\* whether the tuple a is at most the tuple b in lexicographic order
LexLE(a, b) ==
    \/ a = b
    \/ \E i \in 1..5 : a[i] < b[i] /\ \A j \in 1..(i - 1) : a[j] = b[j]

\* C17: with the target fixed five years after the start, from one tick to
\* the next the tuple (years, days, hours, minutes, seconds) never increases
\* in lexicographic order.
C17_Monotonic ==
    [][(/\ cdLast = "tick" /\ cdLast' = "tick"
        /\ targetDate = IntendedTarget /\ targetDate' = targetDate) =>
            LexLE(Tuple(timeLeft'), Tuple(timeLeft))]_vars

\* the number of engines whose state a step changes
EnginesChanged ==
    (IF cdVars' # cdVars THEN 1 ELSE 0) + (IF rotVars' # rotVars THEN 1 ELSE 0)
        + (IF audioVars' # audioVars THEN 1 ELSE 0) + (IF pxVars' # pxVars THEN 1 ELSE 0)

\* C18: every step (a tick of the countdown or of the rotation, toggleAudio,
\* the settling of a play request, a pointer-move event, an effect or a
\* cleanup of one engine) changes the state of one engine at most and
\* leaves the state of the other three unchanged.
C18_EnginesIndependent == [][EnginesChanged <= 1]_vars

\* all four engines have acted
C18_Witness ==
    /\ cdLast = "tick"
    /\ rotTicks > 0
    /\ toggles > 0 /\ playsStarted > 0
    /\ lastSample # <<>>

\* C19: in every state useCountdown exposes, the one of the first render
\* included, the five fields are defined, non-negative integers, with
\* days <= 365, hours <= 23, minutes <= 59 and seconds <= 59.
C19_FieldRanges ==
    /\ DOMAIN timeLeft = {"years", "days", "hours", "minutes", "seconds"}
    /\ \A f \in DOMAIN timeLeft : timeLeft[f] \in Nat
    /\ timeLeft.days <= 365
    /\ timeLeft.hours <= 23
    /\ timeLeft.minutes <= 59
    /\ timeLeft.seconds <= 59

\* at most one timer of each kind and one listener, none after the unmount
\* once the cleanups have run
NothingLeaked ==
    /\ cdTimers <= 1 /\ rotTimers <= 1 /\ listeners <= 1
    /\ (unmounted /\ Idle) => (cdTimers = 0 /\ rotTimers = 0 /\ listeners = 0)

\* C20: across mounts, re-runs of the effects (the interval, the length of
\* the list or the strength changed) and the unmount, at most one countdown
\* interval, one rotation interval and one mousemove listener are
\* registered, none after the unmount; and a run of the rotation effect
\* keeps the current index.
C20_NoLeak ==
    /\ []NothingLeaked
    /\ [][(rotLen' # rotLen \/ rotInterval' # rotInterval \/ rotTimers' # rotTimers) =>
            currentShayariIndex' = currentShayariIndex]_vars

\* unmounted, with nothing registered, after the rotation had ticked and its
\* effect had run again for another interval
C20_Witness ==
    /\ unmounted /\ Idle
    /\ rotTicks > 0 /\ currentShayariIndex > 0
    /\ rotInterval = OtherInterval
    /\ cdTimers = 0 /\ rotTimers = 0 /\ listeners = 0

\* C21: while the element is attached, whenever the committed isPlayingAudio
\* is false and no toggle awaits its render, the element is not playing,
\* also after a failed play request and after two toggles in one render.
C21_PausedMeansSilent ==
    (attached /\ ~isPlayingAudio /\ setQueue = <<>>) => ~devicePlaying

\* paused and silent again after a play request was fulfilled and a later
\* toggle paused the element
C21_Witness ==
    /\ attached /\ ~isPlayingAudio /\ setQueue = <<>>
    /\ toggles = 2 /\ playsStarted > 0
    /\ ~devicePlaying


=============================================================================
